---- MODULE Spec2Model ----
(***************************************************************************)
(* Model of the api-gateway authorization pipeline: the topic pattern      *)
(* matcher (pkg/permissions/matcher.go), the credential cache              *)
(* (internal/cache/cache.go, token_hasher.go), the PocketBase client's     *)
(* results and the auth middleware of the gateway.                         *)
(*                                                                         *)
(* Strings of the program are sequences of one-character strings, so that  *)
(* strings.Split, strings.Trim, strings.Contains and slicing are computed  *)
(* character by character as the Go code computes them.                    *)
(***************************************************************************)
EXTENDS Integers, Sequences, FiniteSets, TLC

VARIABLES
    args,             \* pure-function runs: the inputs drawn
    ret,              \* pure-function runs: the function applied and its result
    userCache,        \* Cache.userCache: hashed token key -> user
    roleCache,        \* Cache.roleCache: role id -> role
    lastRefreshTime,  \* Cache.lastRefreshTime, in seconds
    now,              \* the wall clock, in seconds since the cache was made
    booted,           \* gateway.New has returned
    pc,               \* per handler goroutine: its position in authMiddleware
    req,              \* per handler goroutine: the request it serves
    loc,              \* per handler goroutine: the locals of authMiddleware
    outcome,          \* per handler goroutine: what the middleware answered
    started,          \* number of requests received so far
    stored            \* history of the stores since the last ClearCache:
                      \* users = raw token -> the user last put in userCache
                      \* for a request carrying it, roles = ids put in roleCache

\***************************************************************************
\* Go's strings package, on sequences of characters
\***************************************************************************

\* strings.Contains(s, c) for a one-character c
Contains(s, c) == \E i \in 1..Len(s) : s[i] = c

RECURSIVE TrimLeft(_, _)
TrimLeft(s, c) == IF Len(s) > 0 /\ s[1] = c THEN TrimLeft(Tail(s), c) ELSE s

RECURSIVE TrimRight(_, _)
TrimRight(s, c) ==
    IF Len(s) > 0 /\ s[Len(s)] = c THEN TrimRight(SubSeq(s, 1, Len(s) - 1), c) ELSE s

\* strings.Trim(s, c) for a one-character cutset c
Trim(s, c) == TrimRight(TrimLeft(s, c), c)

\* strings.TrimPrefix(s, c) for a one-character prefix c
TrimPrefix(s, c) == IF Len(s) > 0 /\ s[1] = c THEN Tail(s) ELSE s

\* strings.ReplaceAll(s, old, new) for one-character old and new
ReplaceAll(s, old, new) == [i \in 1..Len(s) |-> IF s[i] = old THEN new ELSE s[i]]

\* strings.Split(s, sep) for a one-character separator: always at least one
\* part, so Split of the empty string is one empty part.
RECURSIVE Split(_, _)
Split(s, sep) ==
    IF ~Contains(s, sep) THEN <<s>>
    ELSE LET k == CHOOSE i \in 1..Len(s) :
                     s[i] = sep /\ \A j \in 1..(i - 1) : s[j] # sep
         IN  <<SubSeq(s, 1, k - 1)>> \o Split(SubSeq(s, k + 1, Len(s)), sep)

\***************************************************************************
\* pkg/permissions/matcher.go
\***************************************************************************

MQTT == "MQTT"
NATS == "NATS"

DetectSchemaType(pattern) ==
    IF Contains(pattern, "*") \/ Contains(pattern, ">")
          \/ (Contains(pattern, ".") /\ ~Contains(pattern, "/"))
    THEN NATS
    ELSE MQTT

normalizePath(path, schemaType) ==
    LET p == Trim(path, "/")
    IN  IF schemaType = NATS THEN Trim(p, ".") ELSE p

\* Variant of MapPathToTopic that only removes the leading slash.
MapPathToTopic_TrimOnly(path, schemaType) == TrimPrefix(path, "/")

\* Variant of MapPathToTopic that writes the topic with dots for both schemas.
MapPathToTopic_AlwaysDots(path, schemaType) ==
    ReplaceAll(TrimPrefix(path, "/"), "/", ".")

MapPathToTopic(path, schemaType) ==
    LET p == TrimPrefix(path, "/")
    IN  IF schemaType = NATS THEN ReplaceAll(p, "/", ".") ELSE p

Separator(schemaType) == IF schemaType = NATS THEN "." ELSE "/"

MultiWildcard(schemaType) == IF schemaType = NATS THEN <<">">> ELSE <<"#">>

SingleWildcard(schemaType) == IF schemaType = NATS THEN <<"*">> ELSE <<"+">>

\* Variant of matchParts that tests for an exhausted path before it tests for
\* the multi-level wildcard, so the wildcard needs one more path segment.
RECURSIVE matchParts_MultiNeedsSegment(_, _, _)
matchParts_MultiNeedsSegment(patternParts, pathParts, schemaType) ==
    IF Len(patternParts) = 0 THEN Len(pathParts) = 0
    ELSE LET segment == patternParts[1]
         IN  IF Len(pathParts) = 0 THEN FALSE
             ELSE IF segment = MultiWildcard(schemaType)
             THEN (IF Len(patternParts) > 1 THEN FALSE ELSE TRUE)
             ELSE IF segment = SingleWildcard(schemaType) \/ segment = pathParts[1]
                  THEN matchParts_MultiNeedsSegment(Tail(patternParts), Tail(pathParts),
                                                    schemaType)
                  ELSE FALSE

\* Variant of matchParts without the test that the multi-level wildcard is the
\* last pattern segment.
RECURSIVE matchParts_MultiAnywhere(_, _, _)
matchParts_MultiAnywhere(patternParts, pathParts, schemaType) ==
    IF Len(patternParts) = 0 THEN Len(pathParts) = 0
    ELSE LET segment == patternParts[1]
         IN  IF segment = MultiWildcard(schemaType) THEN TRUE
             ELSE IF Len(pathParts) = 0 THEN FALSE
             ELSE IF segment = SingleWildcard(schemaType) \/ segment = pathParts[1]
                  THEN matchParts_MultiAnywhere(Tail(patternParts), Tail(pathParts),
                                                schemaType)
                  ELSE FALSE

\* Variant of matchParts in which the single-level wildcard accepts all the
\* remaining path segments, as the multi-level wildcard does.
RECURSIVE matchParts_SingleAsMulti(_, _, _)
matchParts_SingleAsMulti(patternParts, pathParts, schemaType) ==
    IF Len(patternParts) = 0 THEN Len(pathParts) = 0
    ELSE LET segment == patternParts[1]
         IN  IF segment = MultiWildcard(schemaType)
             THEN (IF Len(patternParts) > 1 THEN FALSE ELSE TRUE)
             ELSE IF Len(pathParts) = 0 THEN FALSE
             ELSE IF segment = SingleWildcard(schemaType)
                  THEN (IF Len(patternParts) = 1 THEN TRUE
                        ELSE matchParts_SingleAsMulti(Tail(patternParts), Tail(pathParts),
                                                      schemaType))
             ELSE IF segment = pathParts[1]
                  THEN matchParts_SingleAsMulti(Tail(patternParts), Tail(pathParts),
                                                schemaType)
                  ELSE FALSE

RECURSIVE matchParts(_, _, _)
matchParts(patternParts, pathParts, schemaType) ==
    IF Len(patternParts) = 0 THEN Len(pathParts) = 0
    ELSE LET segment == patternParts[1]
         IN  IF segment = MultiWildcard(schemaType)
             THEN (IF Len(patternParts) > 1 THEN FALSE ELSE TRUE)
             ELSE IF Len(pathParts) = 0 THEN FALSE
             ELSE IF segment = SingleWildcard(schemaType) \/ segment = pathParts[1]
                  THEN matchParts(Tail(patternParts), Tail(pathParts), schemaType)
                  ELSE FALSE

Match(pattern, path) ==
    LET schemaType        == DetectSchemaType(pattern)
        normalizedPattern == normalizePath(pattern, schemaType)
        normalizedPath    == normalizePath(path, schemaType)
        separator         == Separator(schemaType)
        patternParts      == Split(normalizedPattern, separator)
        pathParts         == Split(normalizedPath, separator)
    IN  IF normalizedPattern = <<"#">> \/ normalizedPattern = <<">">>
        THEN TRUE
        ELSE matchParts(patternParts, pathParts, schemaType)

WriteMethods == {"POST", "PUT", "PATCH", "DELETE"}

\* Variant of the method test that leaves PATCH out of the write methods.
SelectPermissions_NoPatch(method, publishPermissions, subscribePermissions) ==
    IF method \in {"POST", "PUT", "DELETE"}
    THEN publishPermissions ELSE subscribePermissions

\* Variant of the method test that falls back to the other list when the
\* selected list is empty.
SelectPermissions_FallBack(method, publishPermissions, subscribePermissions) ==
    LET selected == IF method \in WriteMethods
                    THEN publishPermissions ELSE subscribePermissions
        other    == IF method \in WriteMethods
                    THEN subscribePermissions ELSE publishPermissions
    IN  IF Len(selected) = 0 THEN other ELSE selected

\* Variant of the method test that checks the patterns of both lists.
SelectPermissions_Both(method, publishPermissions, subscribePermissions) ==
    publishPermissions \o subscribePermissions

SelectPermissions(method, publishPermissions, subscribePermissions) ==
    IF method \in WriteMethods THEN publishPermissions ELSE subscribePermissions

\* Variant of the loop over the permission list that returns the result of
\* the first pattern.
AnyPatternMatches_FirstOnly(permissions, path) ==
    IF Len(permissions) = 0 THEN FALSE
    ELSE LET pattern    == Head(permissions)
             schemaType == DetectSchemaType(pattern)
             mqttTopic  == MapPathToTopic(path, schemaType)
         IN  Match(pattern, mqttTopic)

RECURSIVE AnyPatternMatches(_, _)
AnyPatternMatches(permissions, path) ==
    IF Len(permissions) = 0 THEN FALSE
    ELSE LET pattern    == Head(permissions)
             schemaType == DetectSchemaType(pattern)
             mqttTopic  == MapPathToTopic(path, schemaType)
         IN  IF Match(pattern, mqttTopic) THEN TRUE
             ELSE AnyPatternMatches(Tail(permissions), path)

HasPermission(path, method, publishPermissions, subscribePermissions) ==
    AnyPatternMatches(
        SelectPermissions(method, publishPermissions, subscribePermissions), path)

\***************************************************************************
\* internal/cache/token_hasher.go
\***************************************************************************

\* SHA-256 followed by hex encoding, taken as collision free: a one-to-one
\* function of the bytes hashed whose values are no strings of the model.
HashToken(token) == [sha256 |-> token]

\***************************************************************************
\* internal/pocketbase/client.go: the records and what the service answers
\***************************************************************************

User(id, username, roleID, active) ==
    [id |-> id, username |-> username, roleID |-> roleID, active |-> active]

NilUser == User("", "", "", FALSE)

\* A json.RawMessage holding a permission list: a JSON array of strings, an
\* empty message, or bytes that do not decode into []string
JsonArray(items) == [kind |-> "array", items |-> items]
JsonEmpty == [kind |-> "empty", items |-> <<>>]
JsonMalformed == [kind |-> "malformed", items |-> <<>>]

Role(id, name, publish, subscribe) ==
    [id |-> id, name |-> name, PublishPermissions |-> publish,
     SubscribePermissions |-> subscribe]

NilRole == Role("", "", JsonEmpty, JsonEmpty)

\* Role.GetPublishPermissions / Role.GetSubscribePermissions on the raw field
GetPermissions(raw) ==
    IF raw.kind = "empty" THEN [err |-> FALSE, permissions |-> <<>>]
    ELSE IF raw.kind = "malformed" THEN [err |-> TRUE, permissions |-> <<>>]
    ELSE [err |-> FALSE, permissions |-> raw.items]

GetPublishPermissions(role) == GetPermissions(role.PublishPermissions)

GetSubscribePermissions(role) == GetPermissions(role.SubscribePermissions)

PatternDevicesPlus ==
    <<"a", "p", "i", "/", "v", "1", "/", "d", "e", "v", "i", "c", "e", "s", "/", "+">>
PatternV1Hash == <<"a", "p", "i", "/", "v", "1", "/", "#">>
PatternApiHash == <<"a", "p", "i", "/", "#">>

\* The roles collection of the identity service
RoleOperator ==
    Role("r1", "operator", JsonArray(<<PatternDevicesPlus>>), JsonArray(<<PatternV1Hash>>))
RoleReadOnly == Role("r2", "readonly", JsonArray(<<>>), JsonArray(<<PatternApiHash>>))
\* A role whose publish_permissions field holds JSON that is no array of
\* strings: the record decodes, the field does not
RoleBroken == Role("r3", "broken", JsonMalformed, JsonArray(<<PatternApiHash>>))
AllRoles == <<RoleOperator, RoleReadOnly, RoleBroken>>

\* The tokens presented; issued JWTs start with the same encoded header
JwtPrefix == <<"e", "y", "J", "h", "b", "G", "c", "i">>
TokenAlice == JwtPrefix \o <<".", "a">>
TokenForged == JwtPrefix \o <<".", "x">>
TokenCarol == <<"e", "y", "J", "0", "e", "X", "A", "i", ".", "c">>
TokenBob == <<"b", "o", "b">>
TokenDave == <<"d", "a", "v", "e">>
Tokens == {TokenAlice, TokenForged, TokenCarol, TokenBob, TokenDave}

\* The users collection: the record the auth-refresh endpoint returns for a
\* token it accepts; it answers no other token with 200
UserAlice == User("u1", "alice", "r1", TRUE)
UserBob == User("u2", "bob", "r2", TRUE)
UserCarol == User("u3", "carol", "r1", FALSE)
UserDave == User("u4", "dave", "r3", TRUE)

AcceptedTokens == {TokenAlice, TokenBob, TokenCarol, TokenDave}

RecordOf(token) ==
    IF token = TokenAlice THEN UserAlice
    ELSE IF token = TokenBob THEN UserBob
    ELSE IF token = TokenCarol THEN UserCarol
    ELSE IF token = TokenDave THEN UserDave
    ELSE NilUser

\* Variant of Client.GetUserByToken without the test of the Active field.
ValidateAnswers_NoActiveCheck(token) ==
    {[err |-> "unreachable", user |-> NilUser]}
      \cup (IF token \notin AcceptedTokens
            THEN {[err |-> "status", user |-> NilUser]}
            ELSE {[err |-> "", user |-> RecordOf(token)]})

\* Client.GetUserByToken: the request cannot be sent, the status is not 200,
\* the account is inactive, or the record is returned
ValidateAnswers(token) ==
    {[err |-> "unreachable", user |-> NilUser]}
      \cup (IF token \notin AcceptedTokens
            THEN {[err |-> "status", user |-> NilUser]}
            ELSE IF ~RecordOf(token).active
            THEN {[err |-> "inactive", user |-> NilUser]}
            ELSE {[err |-> "", user |-> RecordOf(token)]})

\* Client.GetAllRoles and Client.GetAllUsers: the list is returned, the
\* request cannot be sent, or the status is not 200
ListAnswers == {"", "unreachable", "status"}

\* Client.GetRoleByID: the request cannot be sent, the status is not 200, or
\* the role is returned
RoleAnswers(id) ==
    {[err |-> "unreachable", role |-> NilRole]}
      \cup (IF \E i \in 1..Len(AllRoles) : AllRoles[i].id = id
            THEN {[err |-> "", role |-> AllRoles[i]] :
                      i \in {j \in 1..Len(AllRoles) : AllRoles[j].id = id}}
            ELSE {[err |-> "status", role |-> NilRole]})

\***************************************************************************
\* internal/cache/cache.go
\***************************************************************************

TTL == 300

\* time.Time{} of a Cache that was never cleared: further in the past than
\* any ttl
ZeroTime == 0 - (TTL + 1)

EmptyMap == << >>

Put(map, key, value) == [k \in DOMAIN map \cup {key} |-> IF k = key THEN value ELSE map[k]]

CacheGetUserByToken(cache, token) ==
    LET hashedToken == HashToken(token)
    IN  IF hashedToken \in DOMAIN cache THEN cache[hashedToken] ELSE NilUser

CacheGetRoleByID(cache, id) == IF id \in DOMAIN cache THEN cache[id] ELSE NilRole

\* Variant of Cache.AddUser in which a second store under a key removes the
\* entry the first store made.
CacheAddUser_DropExisting(cache, token, user) ==
    IF HashToken(token) \in DOMAIN cache
    THEN [k \in DOMAIN cache \ {HashToken(token)} |-> cache[k]]
    ELSE Put(cache, HashToken(token), user)

CacheAddUser(cache, token, user) == Put(cache, HashToken(token), user)

CacheAddRole(cache, id, role) == Put(cache, id, role)

\* Variant of Cache.BulkLoadRoles that stores each role under its name.
RECURSIVE CacheBulkLoadRoles_KeyByName(_, _)
CacheBulkLoadRoles_KeyByName(cache, roles) ==
    IF Len(roles) = 0 THEN cache
    ELSE CacheBulkLoadRoles_KeyByName(Put(cache, Head(roles).name, Head(roles)),
                                      Tail(roles))

\* Variant of Cache.BulkLoadRoles that leaves out the first role of the list.
CacheBulkLoadRoles_SkipFirst(cache, roles) ==
    IF Len(roles) = 0 THEN cache
    ELSE [k \in {Tail(roles)[i].id : i \in 1..(Len(roles) - 1)} \cup DOMAIN cache |->
              IF \E i \in 1..(Len(roles) - 1) : Tail(roles)[i].id = k
              THEN Tail(roles)[CHOOSE i \in 1..(Len(roles) - 1) : Tail(roles)[i].id = k]
              ELSE cache[k]]

RECURSIVE CacheBulkLoadRoles(_, _)
CacheBulkLoadRoles(cache, roles) ==
    IF Len(roles) = 0 THEN cache
    ELSE CacheBulkLoadRoles(Put(cache, Head(roles).id, Head(roles)), Tail(roles))

\* Variant of the TTL test that finds the cache expired after half the TTL.
NeedsRefresh_HalfTTL == now - lastRefreshTime > TTL \div 2

NeedsRefresh == now - lastRefreshTime > TTL

\* Variant of Cache.ClearCache that replaces the role map only.
CacheClearCache_KeepUsers ==
    /\ userCache' = userCache
    /\ roleCache' = EmptyMap
    /\ lastRefreshTime' = now

\* Variant of Cache.ClearCache that replaces the user map only.
CacheClearCache_KeepRoles ==
    /\ userCache' = EmptyMap
    /\ roleCache' = roleCache
    /\ lastRefreshTime' = now

\* Variant of Cache.ClearCache that leaves lastRefreshTime as it was.
CacheClearCache_KeepTime ==
    /\ userCache' = EmptyMap
    /\ roleCache' = EmptyMap
    /\ lastRefreshTime' = lastRefreshTime

\* Cache.ClearCache: one critical section of the write lock
CacheClearCache ==
    /\ userCache' = EmptyMap
    /\ roleCache' = EmptyMap
    /\ lastRefreshTime' = now

GetStats == [users |-> Cardinality(DOMAIN userCache), roles |-> Cardinality(DOMAIN roleCache)]

\* What a method of Cache does between taking c.mutex and releasing it: the
\* lock it takes and the kinds of work inside the section ("map" a read or
\* write of a map, "time" of lastRefreshTime, "hash" HashToken, "log" a call
\* of c.logger)
Section(lock, did) == [lock |-> lock, did |-> did]

SectionGetUserByToken == Section("read", {"hash", "map"})
SectionGetRoleByID == Section("read", {"map"})
SectionAddUser == Section("write", {"hash", "map", "log"})
SectionAddRole == Section("write", {"map", "log"})
SectionClearCache == Section("write", {"map", "time", "log"})
SectionRefreshIfNeeded == Section("read", {"time"})
\* RefreshIfNeeded after RUnlock, when the TTL has expired: c.logger.Debug
\* is given c.lastRefreshTime
SectionRefreshLog == Section("none", {"time", "log"})
SectionBulkLoadUsers == Section("write", {"log"})
SectionBulkLoadRoles == Section("write", {"map", "log"})
SectionGetStats == Section("read", {"map"})

\* A call of the PocketBase client: the caller is in no method of Cache
ExternalCall == Section("none", {"call"})

\***************************************************************************
\* internal/gateway/gateway.go
\***************************************************************************

MaxRequests == 2
MaxTicks == 2
TickSeconds == 200

Workers == {1, 2}

Bearer == <<"B", "e", "a", "r", "e", "r">>
Basic == <<"B", "a", "s", "i", "c">>

\* The Authorization headers received: none, a bearer token, the scheme with
\* an empty token, another scheme
Headers ==
    {<<>>, Bearer \o <<" ">>, Basic \o <<" ">> \o TokenBob}
      \cup {Bearer \o <<" ">> \o token : token \in Tokens}

\* The cache key authMiddleware derives from the token
TokenKey(token) ==
    IF Len(token) > 8 THEN SubSeq(token, 1, 8) \o <<".", ".", ".">> ELSE token

NoRequest == [authHeader |-> <<>>, method |-> "", path |-> <<>>]

NoStats == [users |-> 0, roles |-> 0]

\* A log field that identifies a token: the name of the field and the text
\* written; the digest prefix Cache.AddUser writes is no text of the model
NoLog == [field |-> "none", text |-> <<>>]

\* The locals of one run of authMiddleware, and what the run did so far:
\* whether RefreshIfNeeded returned true, what GetStats returned, how the
\* two cache lookups ended ("none" before the lookup, then "hit" or "miss"),
\* how often each call to the identity service was made, the error of the
\* call that failed, the last token field the run logged, the lock
\* sections or the client call of its latest step, and when another run
\* cleared the cache meanwhile: the positions at which this run then held a
\* result it has not stored yet (the store removes them), and
\* "lookup_window" when it had bulk loaded the roles and not yet looked up
\* its role
NoLocals ==
    [token |-> <<>>, tokenKey |-> <<>>, user |-> NilUser, role |-> NilRole,
     roles |-> <<>>, validated |-> FALSE, hit |-> FALSE, hitStored |-> FALSE,
     refreshed |-> FALSE, stats |-> NoStats,
     userLookup |-> "none", roleLookup |-> "none",
     refreshCalls |-> 0, validateCalls |-> 0, fetchRoleCalls |-> 0,
     err |-> "", logged |-> NoLog, sections |-> <<>>, invalidatedAt |-> {}]

NoStored == [users |-> << >>, roles |-> {}]

RECURSIVE RoleIDs(_)
RoleIDs(roles) == IF Len(roles) = 0 THEN {} ELSE {Head(roles).id} \cup RoleIDs(Tail(roles))

NoOutcome == [kind |-> "none", status |-> "", reason |-> ""]

\***************************************************************************
\* gateway.go, authMiddleware: the permission check and its outcome
\***************************************************************************

Allow == [kind |-> "Allow", status |-> "next", reason |-> "none"]

\* Variant of the error answers that sends 401 for every failure.
Deny_AlwaysUnauthorized(status, reason) ==
    [kind |-> "Deny", status |-> "401", reason |-> reason]

Deny(status, reason) == [kind |-> "Deny", status |-> status, reason |-> reason]

CheckPermission(path, method, publishPermissions, subscribePermissions) ==
    IF ~HasPermission(path, method, publishPermissions, subscribePermissions)
    THEN Deny("403", "insufficient_permissions")
    ELSE Allow

\***************************************************************************
\* Inputs of the matcher
\***************************************************************************

MaxPatternLen == 3
MaxPathLen == 3
MaxListLen == 2

Strings(alphabet, n) == UNION {[1..k -> alphabet] : k \in 0..n}

\* The characters of the patterns and of the paths handed to Match. The
\* request paths of the comparison of the two schemas are drawn from
\* RequestPathAlphabet, which also has the wildcard characters.
PatternAlphabet == {"a", "/", ".", "+", "#", "*", ">"}
PathAlphabet == {"a", "A", "/", "."}

ExamplePattern == <<"a", "p", "i", "/", "+", "/", "d", "e", "v", "i", "c", "e">>
ExamplePathMatch == <<"a", "p", "i", "/", "v", "1", "/", "d", "e", "v", "i", "c", "e">>
ExamplePathLonger ==
    <<"a", "p", "i", "/", "v", "1", "/", "d", "e", "v", "i", "c", "e", "/", "1", "2", "3">>

Patterns == Strings(PatternAlphabet, MaxPatternLen) \cup {ExamplePattern}
LongPaths ==
    {<<"a", "/", "a", "/", "a">>, <<"a", ".", "a", ".", "a">>,
     <<"/", "a", "/", "A", "/", "a", "/">>}
Paths ==
    Strings(PathAlphabet, MaxPathLen) \cup LongPaths
        \cup {ExamplePathMatch, ExamplePathLonger}

PatternPlus == <<"+">>
PatternNatsV1 == <<"a", "p", "i", ".", "v", "1", ".", ">">>

PathDeviceReadings ==
    <<"/", "a", "p", "i", "/", "v", "1", "/", "d", "e", "v", "i", "c", "e", "s", "/",
      "1", "2", "3", "/", "r", "e", "a", "d", "i", "n", "g", "s">>
PathDevice ==
    <<"/", "a", "p", "i", "/", "v", "1", "/", "d", "e", "v", "i", "c", "e", "s", "/",
      "1", "2", "3">>
PathRoot == <<"/">>
PathV1 == <<"/", "a", "p", "i", "/", "v", "1">>
PathHealth == <<"/", "h", "e", "a", "l", "t", "h">>

PermissionPatterns == {PatternDevicesPlus, PatternV1Hash, PatternPlus, PatternNatsV1}
PermissionLists == Strings(PermissionPatterns, MaxListLen)
RequestPaths == {PathDeviceReadings, PathDevice, PathRoot, PathV1, PathHealth}
Methods == {"GET", "HEAD", "OPTIONS", "POST", "PUT", "PATCH", "DELETE", "TRACE"}

\* The routes of the configuration: a public prefix and a protected one
RouteAuth == [pathPrefix |-> <<"/", "a", "u", "t", "h">>, protected |-> FALSE]
RouteApi == [pathPrefix |-> <<"/", "a", "p", "i">>, protected |-> TRUE]
Routes == <<RouteAuth, RouteApi>>

PathAuthLogin == <<"/", "a", "u", "t", "h", "/", "l", "o", "g", "i", "n">>

HasPrefix(s, prefix) ==
    Len(s) >= Len(prefix) /\ SubSeq(s, 1, Len(prefix)) = prefix

\* The route the router hands a path to: the one whose prefix the path has
RouteOf(path) ==
    LET i == CHOOSE j \in 1..Len(Routes) : HasPrefix(path, Routes[j].pathPrefix)
    IN  Routes[i]

Request(authHeader, method, path) ==
    [authHeader |-> authHeader, method |-> method, path |-> path]

BearerHeader(token) == Bearer \o <<" ">> \o token

\* The requests received: a read with every Authorization header, a write
\* with the token of alice, and a read of the public route without a token
Requests ==
    {Request(authHeader, "GET", PathDeviceReadings) : authHeader \in Headers}
      \cup {Request(BearerHeader(TokenAlice), "POST", PathDeviceReadings),
            Request(<<>>, "GET", PathAuthLogin)}

NoArgs == [fn |-> "none"]
NoRet == [fn |-> "none"]

vars ==
    <<args, ret, userCache, roleCache, lastRefreshTime, now, booted, pc, req, loc,
      outcome, started, stored>>

gatewayVars ==
    <<userCache, roleCache, lastRefreshTime, now, booted, pc, req, loc, outcome,
      started, stored>>

\***************************************************************************
\* The gateway: construction, then requests served by concurrent handler
\* goroutines. A step is one critical section of the cache mutex, one call to
\* the identity service, or handler-local code up to the next of these.
\***************************************************************************

\* cache.New and the fields of a gateway that serves no request yet
InitGateway ==
    /\ userCache = EmptyMap
    /\ roleCache = EmptyMap
    /\ lastRefreshTime = ZeroTime
    /\ now = 0
    /\ booted = FALSE
    /\ pc = [w \in Workers |-> "idle"]
    /\ req = [w \in Workers |-> NoRequest]
    /\ loc = [w \in Workers |-> NoLocals]
    /\ outcome = [w \in Workers |-> NoOutcome]
    /\ started = 0
    /\ stored = NoStored

Init ==
    /\ args = NoArgs
    /\ ret = NoRet
    /\ InitGateway

Goto(w, label) == pc' = [pc EXCEPT ![w] = label]

Answer(w, result) ==
    /\ outcome' = [outcome EXCEPT ![w] = result]
    /\ Goto(w, "done")

\* gateway.New: the preload through refreshCache, before any request is
\* served; a failed preload is logged and the gateway starts with an empty,
\* freshly cleared cache.
Boot ==
    /\ ~booted
    /\ booted' = TRUE
    /\ NeedsRefresh
    /\ userCache' = EmptyMap
    /\ lastRefreshTime' = now
    /\ \E ok \in BOOLEAN :
          /\ roleCache' = IF ok THEN CacheBulkLoadRoles(EmptyMap, AllRoles) ELSE EmptyMap
          /\ stored' = [users |-> << >>,
                        roles |-> IF ok THEN RoleIDs(AllRoles) ELSE {}]
    /\ UNCHANGED <<args, ret, now, pc, req, loc, outcome, started>>

\* The clock advances
Tick ==
    /\ booted
    /\ now < MaxTicks * TickSeconds
    /\ now' = now + TickSeconds
    /\ UNCHANGED <<args, ret, userCache, roleCache, lastRefreshTime, booted, pc, req,
                   loc, outcome, started, stored>>

\* authMiddleware up to the call of refreshCache: the Authorization header is
\* read and split
Receive(w) ==
    /\ booted
    /\ pc[w] = "idle"
    /\ started < MaxRequests
    /\ started' = started + 1
    /\ \E request \in Requests :
          /\ req' = [req EXCEPT ![w] = request]
          /\ LET authHeader == request.authHeader
                 parts      == Split(authHeader, " ")
             IN  IF authHeader = <<>>
                 THEN /\ Answer(w, Deny("401", "missing_token"))
                      /\ UNCHANGED loc
                 ELSE IF Len(parts) # 2 \/ parts[1] # Bearer
                 THEN /\ Answer(w, Deny("401", "invalid_token_format"))
                      /\ UNCHANGED loc
                 ELSE /\ loc' = [loc EXCEPT ![w].token = parts[2]]
                      /\ Goto(w, "refresh")
                      /\ UNCHANGED outcome
    /\ UNCHANGED <<args, ret, userCache, roleCache, lastRefreshTime, now, booted, stored>>

\* Cache.RefreshIfNeeded up to its call of ClearCache: the read-locked test of
\* the TTL and, when it has expired, the log entry written after RUnlock
RefreshIfNeeded(w) ==
    /\ pc[w] = "refresh"
    /\ IF NeedsRefresh THEN Goto(w, "clear") ELSE Goto(w, "lookup_user")
    /\ loc' = [loc EXCEPT ![w].sections =
                              IF NeedsRefresh
                              THEN <<SectionRefreshIfNeeded, SectionRefreshLog>>
                              ELSE <<SectionRefreshIfNeeded>>]
    /\ UNCHANGED <<args, ret, userCache, roleCache, lastRefreshTime, now, booted, req,
                   outcome, started, stored>>

\* The run of v holds a result of the identity service that it has not yet
\* stored in the cache
HoldsResult(v) == pc[v] \in {"get_all_users", "bulk_load", "add_user", "add_role"}

\* The run of v has bulk loaded the roles and has not yet looked up its role
PastBulkLoad(v) ==
    /\ loc[v].refreshed
    /\ pc[v] \in {"bulk_load_users", "stats", "lookup_user", "validate", "add_user",
                 "lookup_role"}

\* Cache.ClearCache, called by RefreshIfNeeded after it released the read lock
ClearCache(w) ==
    /\ pc[w] = "clear"
    /\ CacheClearCache
    /\ stored' = NoStored
    /\ loc' = [v \in Workers |->
                  IF v = w
                  THEN [loc[w] EXCEPT !.refreshed = TRUE,
                                      !.sections = <<SectionClearCache>>]
                  ELSE IF HoldsResult(v) \/ PastBulkLoad(v)
                  THEN [loc[v] EXCEPT !.invalidatedAt =
                           @ \cup (IF HoldsResult(v) THEN {pc[v]} ELSE {})
                             \cup (IF PastBulkLoad(v) THEN {"lookup_window"} ELSE {})]
                  ELSE loc[v]]
    /\ Goto(w, "get_all_roles")
    /\ UNCHANGED <<args, ret, now, booted, req, outcome, started>>

\* refreshCache: Client.GetAllRoles
GetAllRoles(w) ==
    /\ pc[w] = "get_all_roles"
    /\ \E err \in ListAnswers :
          IF err = ""
          THEN /\ loc' = [loc EXCEPT ![w].roles = AllRoles,
                                     ![w].refreshCalls = @ + 1,
                                     ![w].sections = <<ExternalCall>>]
               /\ Goto(w, "get_all_users")
               /\ UNCHANGED outcome
          ELSE /\ loc' = [loc EXCEPT ![w].refreshCalls = @ + 1, ![w].err = err,
                                     ![w].sections = <<ExternalCall>>]
               /\ Answer(w, Deny("500", "refresh_failed"))
    /\ UNCHANGED <<args, ret, userCache, roleCache, lastRefreshTime, now, booted, req,
                   started, stored>>

\* refreshCache: Client.GetAllUsers
GetAllUsers(w) ==
    /\ pc[w] = "get_all_users"
    /\ \E err \in ListAnswers :
          /\ loc' = [loc EXCEPT ![w].refreshCalls = @ + 1, ![w].err = err,
                                ![w].sections = <<ExternalCall>>]
          /\ IF err = ""
             THEN /\ Goto(w, "bulk_load")
                  /\ UNCHANGED outcome
             ELSE Answer(w, Deny("500", "refresh_failed"))
    /\ UNCHANGED <<args, ret, userCache, roleCache, lastRefreshTime, now, booted, req,
                   started, stored>>

\* refreshCache: Cache.BulkLoadRoles, one critical section of the write lock
BulkLoadRoles(w) ==
    /\ pc[w] = "bulk_load"
    /\ roleCache' = CacheBulkLoadRoles(roleCache, loc[w].roles)
    /\ stored' = [stored EXCEPT !.roles = @ \cup RoleIDs(loc[w].roles)]
    /\ loc' = [loc EXCEPT ![w].sections = <<SectionBulkLoadRoles>>,
                          ![w].invalidatedAt = @ \ {"get_all_users", "bulk_load"}]
    /\ Goto(w, "bulk_load_users")
    /\ UNCHANGED <<args, ret, userCache, lastRefreshTime, now, booted, req,
                   outcome, started>>

\* refreshCache: Cache.BulkLoadUsers, a critical section of its own, taken
\* after BulkLoadRoles released the lock; it counts the active users, logs
\* the count and stores nothing
BulkLoadUsers(w) ==
    /\ pc[w] = "bulk_load_users"
    /\ loc' = [loc EXCEPT ![w].sections = <<SectionBulkLoadUsers>>]
    /\ Goto(w, "stats")
    /\ UNCHANGED <<args, ret, userCache, roleCache, lastRefreshTime, now, booted, req,
                   outcome, started, stored>>

\* refreshCache: Cache.GetStats, read for the cache size metrics
UpdateCacheSize(w) ==
    /\ pc[w] = "stats"
    /\ loc' = [loc EXCEPT ![w].stats = GetStats,
                          ![w].sections = <<SectionGetStats>>]
    /\ Goto(w, "lookup_user")
    /\ UNCHANGED <<args, ret, userCache, roleCache, lastRefreshTime, now, booted, req,
                   outcome, started, stored>>

\* authMiddleware: the token key, then Cache.GetUserByToken
LookupUser(w) ==
    /\ pc[w] = "lookup_user"
    /\ LET tokenKey == TokenKey(loc[w].token)
           user     == CacheGetUserByToken(userCache, tokenKey)
       IN  IF user = NilUser
           THEN /\ loc' = [loc EXCEPT ![w].tokenKey = tokenKey,
                                      ![w].userLookup = "miss",
                                      ![w].sections = <<SectionGetUserByToken>>]
                /\ Goto(w, "validate")
           ELSE /\ loc' = [loc EXCEPT ![w].tokenKey = tokenKey, ![w].user = user,
                                      ![w].hit = TRUE,
                                      ![w].hitStored =
                                          (loc[w].token \in DOMAIN stored.users),
                                      ![w].userLookup = "hit",
                                      ![w].sections = <<SectionGetUserByToken>>]
                /\ Goto(w, "lookup_role")
    /\ UNCHANGED <<args, ret, userCache, roleCache, lastRefreshTime, now, booted, req,
                   outcome, started, stored>>

\* authMiddleware: Client.GetUserByToken on a cache miss
ValidateToken(w) ==
    /\ pc[w] = "validate"
    /\ \E answer \in ValidateAnswers(loc[w].token) :
          IF answer.err # ""
          THEN /\ Answer(w, Deny("401", "invalid_token"))
               /\ loc' = [loc EXCEPT ![w].validateCalls = @ + 1,
                                     ![w].err = answer.err,
                                     ![w].logged = [field |-> "token_prefix",
                                                    text |-> loc[w].tokenKey],
                                     ![w].sections = <<ExternalCall>>]
          ELSE /\ loc' = [loc EXCEPT ![w].user = answer.user, ![w].validated = TRUE,
                                     ![w].validateCalls = @ + 1,
                                     ![w].sections = <<ExternalCall>>]
               /\ Goto(w, "add_user")
               /\ UNCHANGED outcome
    /\ UNCHANGED <<args, ret, userCache, roleCache, lastRefreshTime, now, booted, req,
                   started, stored>>

\* authMiddleware: Cache.AddUser
AddUser(w) ==
    /\ pc[w] = "add_user"
    /\ userCache' = CacheAddUser(userCache, loc[w].tokenKey, loc[w].user)
    /\ stored' = [stored EXCEPT !.users = Put(@, loc[w].token, loc[w].user)]
    /\ loc' = [loc EXCEPT ![w].logged = [field |-> "hashed_token", text |-> <<>>],
                          ![w].sections = <<SectionAddUser>>,
                          ![w].invalidatedAt = @ \ {"add_user"}]
    /\ Goto(w, "lookup_role")
    /\ UNCHANGED <<args, ret, roleCache, lastRefreshTime, now, booted, req,
                   outcome, started>>

\* Variant of the role lookup that asks the identity service for the role
\* whether or not the cache holds it.
LookupRole_AlwaysFetch(w) ==
    /\ pc[w] = "lookup_role"
    /\ LET role == CacheGetRoleByID(roleCache, loc[w].user.roleID)
       IN  /\ loc' = [loc EXCEPT ![w].roleLookup =
                                     IF role = NilRole THEN "miss" ELSE "hit",
                                 ![w].sections = <<SectionGetRoleByID>>]
           /\ Goto(w, "fetch_role")
    /\ UNCHANGED <<args, ret, userCache, roleCache, lastRefreshTime, now, booted, req,
                   outcome, started, stored>>

\* authMiddleware: Cache.GetRoleByID
LookupRole(w) ==
    /\ pc[w] = "lookup_role"
    /\ LET role == CacheGetRoleByID(roleCache, loc[w].user.roleID)
       IN  IF role = NilRole
           THEN /\ loc' = [loc EXCEPT ![w].roleLookup = "miss",
                                      ![w].sections = <<SectionGetRoleByID>>]
                /\ Goto(w, "fetch_role")
           ELSE /\ loc' = [loc EXCEPT ![w].role = role, ![w].roleLookup = "hit",
                                      ![w].sections = <<SectionGetRoleByID>>]
                /\ Goto(w, "authorize")
    /\ UNCHANGED <<args, ret, userCache, roleCache, lastRefreshTime, now, booted, req,
                   outcome, started, stored>>

\* authMiddleware: Client.GetRoleByID on a cache miss
FetchRole(w) ==
    /\ pc[w] = "fetch_role"
    /\ \E answer \in RoleAnswers(loc[w].user.roleID) :
          IF answer.err # ""
          THEN /\ Answer(w, Deny("500", "role_not_found"))
               /\ loc' = [loc EXCEPT ![w].fetchRoleCalls = @ + 1,
                                     ![w].err = answer.err,
                                     ![w].sections = <<ExternalCall>>]
          ELSE /\ loc' = [loc EXCEPT ![w].role = answer.role,
                                     ![w].fetchRoleCalls = @ + 1,
                                     ![w].sections = <<ExternalCall>>]
               /\ Goto(w, "add_role")
               /\ UNCHANGED outcome
    /\ UNCHANGED <<args, ret, userCache, roleCache, lastRefreshTime, now, booted, req,
                   started, stored>>

\* authMiddleware: Cache.AddRole
AddRole(w) ==
    /\ pc[w] = "add_role"
    /\ roleCache' = CacheAddRole(roleCache, loc[w].role.id, loc[w].role)
    /\ stored' = [stored EXCEPT !.roles = @ \cup {loc[w].role.id}]
    /\ loc' = [loc EXCEPT ![w].sections = <<SectionAddRole>>,
                          ![w].invalidatedAt = @ \ {"add_role"}]
    /\ Goto(w, "authorize")
    /\ UNCHANGED <<args, ret, userCache, lastRefreshTime, now, booted, req,
                   outcome, started>>

\* authMiddleware from the role on: the two permission lists are decoded,
\* publish first, and the permission check decides
Decide(role, method, path) ==
    LET publish   == GetPublishPermissions(role)
        subscribe == GetSubscribePermissions(role)
    IN  IF publish.err \/ subscribe.err
        THEN Deny("500", "invalid_permissions")
        ELSE CheckPermission(path, method, publish.permissions, subscribe.permissions)

Authorize(w) ==
    /\ pc[w] = "authorize"
    /\ Answer(w, Decide(loc[w].role, req[w].method, req[w].path))
    /\ loc' = [loc EXCEPT ![w].sections = <<>>]
    /\ UNCHANGED <<args, ret, userCache, roleCache, lastRefreshTime, now, booted, req,
                   started, stored>>

\* The handler returns and the goroutine is free for the next request
Finish(w) ==
    /\ pc[w] = "done"
    /\ Goto(w, "idle")
    /\ req' = [req EXCEPT ![w] = NoRequest]
    /\ loc' = [loc EXCEPT ![w] = NoLocals]
    /\ outcome' = [outcome EXCEPT ![w] = NoOutcome]
    /\ UNCHANGED <<args, ret, userCache, roleCache, lastRefreshTime, now, booted,
                   started, stored>>

Next ==
    \/ Boot
    \/ Tick
    \/ \E w \in Workers :
          \/ Receive(w)
          \/ RefreshIfNeeded(w)
          \/ ClearCache(w)
          \/ GetAllRoles(w)
          \/ GetAllUsers(w)
          \/ BulkLoadRoles(w)
          \/ BulkLoadUsers(w)
          \/ UpdateCacheSize(w)
          \/ LookupUser(w)
          \/ ValidateToken(w)
          \/ AddUser(w)
          \/ LookupRole(w)
          \/ FetchRole(w)
          \/ AddRole(w)
          \/ Authorize(w)
          \/ Finish(w)

Spec == Init /\ [][Next]_vars

\***************************************************************************
\* The matcher as a pure function: a pattern is drawn, then Match or
\* DetectSchemaType is applied to it
\***************************************************************************

InitMatch ==
    /\ args \in [fn : {"Match"}, pattern : Patterns]
    /\ ret = NoRet
    /\ InitGateway

CallDetectSchemaType ==
    /\ args.fn = "Match"
    /\ ret = NoRet
    /\ ret' = [fn |-> "DetectSchemaType", value |-> DetectSchemaType(args.pattern)]
    /\ UNCHANGED <<args, gatewayVars>>

CallMatch ==
    /\ args.fn = "Match"
    /\ ret = NoRet
    /\ \E path \in Paths :
          ret' = [fn |-> "Match", path |-> path, value |-> Match(args.pattern, path)]
    /\ UNCHANGED <<args, gatewayVars>>

NextMatch == CallDetectSchemaType \/ CallMatch

MatchSpec == InitMatch /\ [][NextMatch]_vars

\***************************************************************************
\* The permission check as a pure function of the role's two lists, the
\* method and the path
\***************************************************************************

InitPerm ==
    /\ args \in [fn : {"HasPermission"}, publish : PermissionLists,
                 subscribe : PermissionLists]
    /\ ret = NoRet
    /\ InitGateway

CallHasPermission ==
    /\ args.fn = "HasPermission"
    /\ ret = NoRet
    /\ \E path \in RequestPaths, method \in Methods :
          ret' = [fn |-> "HasPermission", path |-> path, method |-> method,
                  value |-> HasPermission(path, method, args.publish, args.subscribe)]
    /\ UNCHANGED <<args, gatewayVars>>

CallCheckPermission ==
    /\ args.fn = "HasPermission"
    /\ ret = NoRet
    /\ \E path \in RequestPaths, method \in Methods :
          ret' = [fn |-> "CheckPermission", path |-> path, method |-> method,
                  value |-> CheckPermission(path, method, args.publish, args.subscribe)]
    /\ UNCHANGED <<args, gatewayVars>>

NextPerm == CallHasPermission \/ CallCheckPermission

PermSpec == InitPerm /\ [][NextPerm]_vars

\***************************************************************************
\* The permission check with one pattern in both lists, once with a
\* dot-schema pattern and once with the pattern written with the slash
\* schema's characters
\***************************************************************************

\* The characters of the dot schema, and dot-schema patterns that also hold
\* the separator or a wildcard of the slash schema, or a wildcard character
\* inside a longer segment
DotAlphabet == {"a", ".", "*", ">"}
MixedPatterns ==
    {<<"a", "/", "*">>, <<"*", "/", "a">>, <<"+", ".", "a">>, <<"a", ".", "+">>,
     <<"#", ".", "a">>, <<"a", ".", "#">>, <<".", "#">>, <<"a", "+", "*">>}

\* The patterns DetectSchemaType takes for dot schema
DotPatterns ==
    {pattern \in Strings(DotAlphabet, MaxPatternLen) \cup MixedPatterns :
        DetectSchemaType(pattern) = NATS}

\* The pattern with / for ., + for * and # for >
SlashForm(pattern) ==
    [i \in 1..Len(pattern) |->
        IF pattern[i] = "." THEN "/"
        ELSE IF pattern[i] = "*" THEN "+"
        ELSE IF pattern[i] = ">" THEN "#"
        ELSE pattern[i]]

\* Request paths: a slash, then a string of letters, separators and the
\* wildcard characters of both schemas, which are plain characters in a path
RequestPathAlphabet == {"a", "/", ".", "+", "#", "*", ">"}
ShortRequestPaths ==
    {<<"/">> \o path : path \in Strings(RequestPathAlphabet, MaxPathLen)}

InitSchema ==
    /\ args \in [fn : {"HasPermission"}, pattern : DotPatterns]
    /\ ret = NoRet
    /\ InitGateway

CallHasPermissionBoth ==
    /\ args.fn = "HasPermission"
    /\ ret = NoRet
    /\ \E path \in ShortRequestPaths, method \in {"GET", "POST"} :
          ret' = [fn |-> "HasPermission", path |-> path, method |-> method,
                  value |-> HasPermission(path, method, <<args.pattern>>,
                                          <<args.pattern>>),
                  slash |-> HasPermission(path, method, <<SlashForm(args.pattern)>>,
                                          <<SlashForm(args.pattern)>>)]
    /\ UNCHANGED <<args, gatewayVars>>

NextSchema == CallHasPermissionBoth

SchemaSpec == InitSchema /\ [][NextSchema]_vars

\***************************************************************************
\* The cache as an object: the callers apply its methods to the cache
\* cache.New returns, and the clock advances between the calls. Every method
\* but RefreshIfNeeded is one critical section of c.mutex and is one step.
\* RefreshIfNeeded is two: its read-locked test of the TTL and, when the TTL
\* has expired, ClearCache, which takes the write lock after the read lock
\* was released; the calls of the other callers may come between the two.
\* pc[w] is "clear" while the call of w is between its test and its
\* ClearCache, and loc[w] holds the keys the maps held at the test. ret is
\* the call that returned last: its arguments and its result; for a call of
\* RefreshIfNeeded the time it returned at and, when it returned false, the
\* cache it was applied to and the call that had returned last when it was
\* made; when it returned true, the keys the maps held at its test.
\***************************************************************************

MaxSleeps == 2

\* By how much the clock advances between two calls: the TTL exactly, or one
\* second more
SleepSeconds == {TTL, TTL + 1}

CacheTokens == {TokenAlice, TokenBob}
CacheUsers == {UserAlice, UserBob}
CacheRoles == <<RoleOperator, RoleReadOnly>>

callerVars == <<booted, req, outcome, started, stored>>

handlerVars == <<booted, pc, req, loc, outcome, started, stored>>

InitCache ==
    /\ args = [fn |-> "Cache"]
    /\ ret = NoRet
    /\ InitGateway

\* Some caller is not inside a call of RefreshIfNeeded
CallerFree == \E w \in Workers : pc[w] = "idle"

Sleep ==
    /\ args.fn = "Cache"
    /\ now < MaxSleeps * TTL
    /\ \E d \in SleepSeconds : now' = now + d
    /\ UNCHANGED <<args, ret, userCache, roleCache, lastRefreshTime, handlerVars>>

CallGetUserByToken ==
    /\ args.fn = "Cache"
    /\ CallerFree
    /\ \E token \in CacheTokens :
          ret' = [fn |-> "GetUserByToken", token |-> token,
                  value |-> CacheGetUserByToken(userCache, token)]
    /\ UNCHANGED <<args, userCache, roleCache, lastRefreshTime, now, handlerVars>>

CallGetRoleByID ==
    /\ args.fn = "Cache"
    /\ CallerFree
    /\ \E id \in RoleIDs(CacheRoles) :
          ret' = [fn |-> "GetRoleByID", id |-> id,
                  value |-> CacheGetRoleByID(roleCache, id)]
    /\ UNCHANGED <<args, userCache, roleCache, lastRefreshTime, now, handlerVars>>

CallAddUser ==
    /\ args.fn = "Cache"
    /\ CallerFree
    /\ \E token \in CacheTokens, user \in CacheUsers :
          /\ userCache' = CacheAddUser(userCache, token, user)
          /\ ret' = [fn |-> "AddUser", token |-> token, user |-> user]
    /\ UNCHANGED <<args, roleCache, lastRefreshTime, now, handlerVars>>

CallAddRole ==
    /\ args.fn = "Cache"
    /\ CallerFree
    /\ \E i \in 1..Len(CacheRoles) :
          /\ roleCache' = CacheAddRole(roleCache, CacheRoles[i].id, CacheRoles[i])
          /\ ret' = [fn |-> "AddRole", id |-> CacheRoles[i].id]
    /\ UNCHANGED <<args, userCache, lastRefreshTime, now, handlerVars>>

CallBulkLoadRoles ==
    /\ args.fn = "Cache"
    /\ CallerFree
    /\ roleCache' = CacheBulkLoadRoles(roleCache, CacheRoles)
    /\ ret' = [fn |-> "BulkLoadRoles"]
    /\ UNCHANGED <<args, userCache, lastRefreshTime, now, handlerVars>>

CallGetStats ==
    /\ args.fn = "Cache"
    /\ CallerFree
    /\ ret' = [fn |-> "GetStats", value |-> GetStats]
    /\ UNCHANGED <<args, userCache, roleCache, lastRefreshTime, now, handlerVars>>

\* Cache.ClearCache called on its own
CallClearCache ==
    /\ args.fn = "Cache"
    /\ CallerFree
    /\ CacheClearCache
    /\ ret' = [fn |-> "ClearCache"]
    /\ UNCHANGED <<args, now, handlerVars>>

\* The call that returned last, as a call of RefreshIfNeeded finds it
LastReturned ==
    IF ret.fn = "RefreshIfNeeded"
    THEN [fn |-> ret.fn, value |-> ret.value, at |-> ret.at]
    ELSE [fn |-> ret.fn]

\* The keys the maps hold
Held == [users |-> DOMAIN userCache, roles |-> DOMAIN roleCache]

\* Cache.RefreshIfNeeded up to RUnlock: the test of the TTL under the read
\* lock. The call returns false when the TTL has not expired, and goes on to
\* ClearCache when it has.
CallRefreshIfNeeded(w) ==
    /\ args.fn = "Cache"
    /\ pc[w] = "idle"
    /\ IF NeedsRefresh
       THEN /\ pc' = [pc EXCEPT ![w] = "clear"]
            /\ loc' = [loc EXCEPT ![w] = [held |-> Held]]
            /\ UNCHANGED ret
       ELSE /\ ret' = [fn |-> "RefreshIfNeeded", at |-> now, value |-> FALSE,
                       before |-> [users |-> userCache, roles |-> roleCache,
                                   last |-> lastRefreshTime],
                       prev |-> LastReturned]
            /\ UNCHANGED <<pc, loc>>
    /\ UNCHANGED <<args, userCache, roleCache, lastRefreshTime, now, callerVars>>

\* Cache.RefreshIfNeeded after RUnlock, when the TTL had expired: the log
\* entry, which changes nothing, then ClearCache: the maps are replaced and
\* lastRefreshTime is set under the write lock, whatever the other callers
\* did since the test, and the call returns true
RefreshClearCache(w) ==
    /\ args.fn = "Cache"
    /\ pc[w] = "clear"
    /\ CacheClearCache
    /\ ret' = [fn |-> "RefreshIfNeeded", at |-> now, value |-> TRUE,
               held |-> loc[w].held]
    /\ pc' = [pc EXCEPT ![w] = "idle"]
    /\ loc' = [loc EXCEPT ![w] = NoLocals]
    /\ UNCHANGED <<args, now, callerVars>>

NextCache ==
    \/ Sleep
    \/ CallGetUserByToken
    \/ CallGetRoleByID
    \/ CallAddUser
    \/ CallAddRole
    \/ CallBulkLoadRoles
    \/ CallGetStats
    \/ CallClearCache
    \/ \E w \in Workers :
          \/ CallRefreshIfNeeded(w)
          \/ RefreshClearCache(w)

CacheSpec == InitCache /\ [][NextCache]_vars

\***************************************************************************
\* Properties of the gateway
\***************************************************************************

\* C1: a request is allowed only if Client.GetUserByToken succeeded for the
\* raw token of that request, during the request itself or, when the request
\* was served from the cache, for a result stored under that same raw token
\* since the last ClearCache; a token that was never validated is not allowed
\* because another token has a cached user.
C1_AllowedOnlyIfValidated ==
    \A w \in Workers :
        (pc[w] = "done" /\ outcome[w].kind = "Allow")
        => \/ loc[w].validated
           \/ loc[w].hit /\ loc[w].hitStored


\* The tokens of a request that carries no token: no Authorization header,
\* or the Bearer scheme followed by nothing
EmptyTokenHeaders == {<<>>, Bearer \o <<" ">>}

\* The calls a request made to the identity service so far
ExternalCalls(w) ==
    loc[w].refreshCalls + loc[w].validateCalls + loc[w].fetchRoleCalls

\* C11: a request whose bearer token is empty, the Authorization header
\* absent or the Bearer scheme followed by an empty token, makes no call to
\* the identity service and is answered 401 missing_token.
C11_EmptyTokenNoExternalCall ==
    \A w \in Workers :
        (pc[w] # "idle" /\ req[w].authHeader \in EmptyTokenHeaders)
        => /\ ExternalCalls(w) = 0
           /\ pc[w] = "done" => outcome[w] = Deny("401", "missing_token")

\* The key the cache uses for a request that carries the raw token t
KeyOf(t) == HashToken(TokenKey(t))

\* C12: every key of the user map is the digest of a raw token that a request
\* presented and that was stored since the last ClearCache, whatever the
\* length of the token.
C12_KeysAreTokenDigests ==
    \A k \in DOMAIN userCache : \E t \in DOMAIN stored.users : k = HashToken(t)

\* C13: the lookup made for a request that carries the raw token t returns a
\* user only if a user was stored for a request carrying that same raw token
\* since the last ClearCache, and it returns the user stored last.
C13_LookupReturnsLatestStore ==
    \A t \in Tokens :
        LET user == CacheGetUserByToken(userCache, TokenKey(t))
        IN  user # NilUser
            => /\ t \in DOMAIN stored.users
               /\ stored.users[t] = user

\* C17: a request during which RefreshIfNeeded returned true is not answered
\* with an error because the reload of the roles and users failed.
C17_RefreshFailureDoesNotAbort ==
    \A w \in Workers :
        (pc[w] = "done" /\ loc[w].refreshed)
        => outcome[w] # Deny("500", "refresh_failed")

\* The role the identity service holds for a user
RoleOfUser(user) ==
    LET i == CHOOSE j \in 1..Len(AllRoles) : AllRoles[j].id = user.roleID
    IN  AllRoles[i]

\* The request of w carries the token of an active user whose role permits
\* the method on the path
PermittedRequest(w) ==
    /\ loc[w].token \in AcceptedTokens
    /\ RecordOf(loc[w].token).active
    /\ LET role == RoleOfUser(RecordOf(loc[w].token))
       IN  /\ ~GetPublishPermissions(role).err
           /\ ~GetSubscribePermissions(role).err
           /\ CheckPermission(req[w].path, req[w].method,
                               GetPublishPermissions(role).permissions,
                               GetSubscribePermissions(role).permissions) = Allow

\* The identity service failed a call of the request of w
ServiceFailed(w) ==
    outcome[w].reason \in {"refresh_failed", "invalid_token", "role_not_found"}

\* C18: two requests served concurrently that carry the same token of an
\* active user, are permitted by the user's role and are answered by the
\* identity service, both end in Allow whatever the interleaving, and then the
\* user map holds one entry for the token, the user of the token, and as many
\* entries in all as distinct keys were stored.
C18_ConcurrentSameToken ==
    \A w1, w2 \in Workers :
        (/\ w1 # w2
         /\ pc[w1] = "done" /\ pc[w2] = "done"
         /\ loc[w1].token = loc[w2].token
         /\ PermittedRequest(w1) /\ PermittedRequest(w2)
         /\ ~ServiceFailed(w1) /\ ~ServiceFailed(w2))
        => /\ outcome[w1] = Allow /\ outcome[w2] = Allow
           /\ Cardinality({k \in DOMAIN userCache : k = KeyOf(loc[w1].token)}) = 1
           /\ userCache[KeyOf(loc[w1].token)] = RecordOf(loc[w1].token)
           /\ Cardinality(DOMAIN userCache)
                 = Cardinality({KeyOf(t) : t \in DOMAIN stored.users})

C18_Witness ==
    /\ pc[1] = "done" /\ pc[2] = "done"
    /\ loc[1].token = TokenAlice /\ loc[2].token = TokenAlice
    /\ loc[1].validateCalls = 1 /\ loc[2].validateCalls = 1
    /\ outcome[1] = Allow /\ outcome[2] = Allow
    /\ GetStats.users = 1

\* C19: in every state, and so for every lookup and every GetStats that
\* reads it, each map holds the entries stored since the last ClearCache and
\* no other: no entry of before the invalidation is left in one map while the
\* other is empty.
C19_InvalidationAtomic ==
    /\ DOMAIN userCache = {KeyOf(t) : t \in DOMAIN stored.users}
    /\ DOMAIN roleCache = stored.roles
    /\ GetStats = [users |-> Cardinality({KeyOf(t) : t \in DOMAIN stored.users}),
                   roles |-> Cardinality(stored.roles)]
    /\ \A w \in Workers :
          pc[w] = "get_all_roles" /\ stored = NoStored
          => /\ \A t \in Tokens : CacheGetUserByToken(userCache, TokenKey(t)) = NilUser
             /\ \A id \in RoleIDs(AllRoles) : CacheGetRoleByID(roleCache, id) = NilRole

C19_Witness ==
    \E w1, w2 \in Workers :
        /\ pc[w1] = "get_all_roles" /\ loc[w1].refreshed
        /\ pc[w2] = "lookup_role" /\ loc[w2].validateCalls = 1
        /\ ~loc[w2].refreshed
        /\ GetStats = NoStats

\* C20: a request calls Client.GetUserByToken once when its user lookup
\* missed and never when it hit, and Client.GetRoleByID once when its role
\* lookup missed and never when it hit; no call is made a second time.
C20_ExternalCallsOncePerMiss ==
    \A w \in Workers :
        /\ loc[w].validateCalls <= 1
        /\ loc[w].fetchRoleCalls <= 1
        /\ loc[w].userLookup # "miss" => loc[w].validateCalls = 0
        /\ loc[w].roleLookup # "miss" => loc[w].fetchRoleCalls = 0
        /\ (loc[w].userLookup = "miss" /\ pc[w] # "validate")
              => loc[w].validateCalls = 1
        /\ (loc[w].roleLookup = "miss" /\ pc[w] # "fetch_role")
              => loc[w].fetchRoleCalls = 1

C20_Witness ==
    \E w \in Workers :
        /\ pc[w] = "done"
        /\ loc[w].userLookup = "hit" /\ loc[w].validateCalls = 0
        /\ loc[w].roleLookup = "miss" /\ loc[w].fetchRoleCalls = 1
        /\ outcome[w] = Deny("500", "role_not_found")

\***************************************************************************
\* Properties of the cache
\***************************************************************************

\* C14: when RefreshIfNeeded returned true and no call returned since, the
\* lookup of every token and role id the cache held when the call was made
\* returns nothing, and GetStats reports no users and no roles.
C14_RefreshEmptiesCache ==
    (ret.fn = "RefreshIfNeeded" /\ ret.value = TRUE)
    => /\ \A t \in CacheTokens :
             HashToken(t) \in ret.held.users
             => CacheGetUserByToken(userCache, t) = NilUser
       /\ \A id \in ret.held.roles :
             CacheGetRoleByID(roleCache, id) = NilRole
       /\ GetStats = [users |-> 0, roles |-> 0]

C14_Witness ==
    /\ ret.fn = "RefreshIfNeeded"
    /\ ret.value = TRUE
    /\ Cardinality(ret.held.users) = 2
    /\ Cardinality(ret.held.roles) = 2
    /\ GetStats = [users |-> 0, roles |-> 0]

\* The call of RefreshIfNeeded by w returns false in this step
ReturnsFalse(w) ==
    /\ pc'[w] = "idle"
    /\ ret'.fn = "RefreshIfNeeded"
    /\ ret'.value = FALSE
    /\ ret'.at = now

\* C15: a call of RefreshIfNeeded made when the cache is new or its TTL has
\* elapsed goes on to clear the cache, and its clearing sets lastRefreshTime
\* to the time it runs at and returns true; a call made when the call that
\* returned last was a call of RefreshIfNeeded that returned true, right
\* after it or later but before the TTL has elapsed again, returns false.
C15_RefreshTwice ==
    [][\A w \in Workers :
           /\ CallRefreshIfNeeded(w)
                 => /\ (lastRefreshTime = ZeroTime \/ now - lastRefreshTime > TTL)
                          => (pc'[w] = "clear" /\ ret' = ret)
                    /\ (/\ ret.fn = "RefreshIfNeeded"
                        /\ ret.value = TRUE
                        /\ now - ret.at <= TTL)
                          => ReturnsFalse(w)
           /\ RefreshClearCache(w)
                 => /\ ret'.fn = "RefreshIfNeeded"
                    /\ ret'.value = TRUE
                    /\ lastRefreshTime' = now]_vars

C15_Witness ==
    /\ ret.fn = "RefreshIfNeeded"
    /\ ret.value = FALSE
    /\ ret.prev.fn = "RefreshIfNeeded"
    /\ ret.prev.value = TRUE
    /\ ret.at = ret.prev.at
    /\ \E w \in Workers : pc[w] = "clear"

\* C16: a call of RefreshIfNeeded made when no more than the TTL has elapsed
\* since lastRefreshTime returns false, and the user map, the role map and
\* lastRefreshTime are as they were before the call.
C16_NoRefreshNoChange ==
    [][\A w \in Workers :
           (CallRefreshIfNeeded(w) /\ now - lastRefreshTime <= TTL)
           => /\ ReturnsFalse(w)
              /\ userCache' = userCache
              /\ roleCache' = roleCache
              /\ lastRefreshTime' = lastRefreshTime]_vars

C16_Witness ==
    /\ ret.fn = "RefreshIfNeeded"
    /\ ret.value = FALSE
    /\ ret.at - ret.before.last = TTL
    /\ userCache = ret.before.users
    /\ roleCache = ret.before.roles
    /\ lastRefreshTime = ret.before.last
    /\ GetStats = [users |-> 2, roles |-> 1]

\***************************************************************************
\* Properties of the answers of authMiddleware
\***************************************************************************

\* The Authorization header is present and is not "Bearer <token>"
MalformedHeader(authHeader) ==
    /\ authHeader # <<>>
    /\ LET parts == Split(authHeader, " ")
       IN  Len(parts) # 2 \/ parts[1] # Bearer

\* The identity service answered the validation of the token of w and
\* rejected it: the status was not 200 or the account is inactive
CredentialRejected(w) ==
    /\ loc[w].validateCalls = 1
    /\ ~loc[w].validated
    /\ loc[w].err \in {"status", "inactive"}

\* The user of w is known and the fetch of its role failed
RoleFetchFailed(w) ==
    /\ loc[w].user # NilUser
    /\ loc[w].fetchRoleCalls = 1
    /\ loc[w].role = NilRole

\* The role of w is known, its two lists are well formed and no pattern of
\* the list of the method matches the path
NoPatternMatches(w) ==
    /\ loc[w].role # NilRole
    /\ ~GetPublishPermissions(loc[w].role).err
    /\ ~GetSubscribePermissions(loc[w].role).err
    /\ ~HasPermission(req[w].path, req[w].method,
                      GetPublishPermissions(loc[w].role).permissions,
                      GetSubscribePermissions(loc[w].role).permissions)

\* C21: an answered request without Authorization header, with a header that
\* is not "Bearer <token>", or with a token the identity service rejected is
\* denied with 401; one whose user is known and whose role could not be
\* fetched is denied with 500 role_not_found; and a request is denied with
\* 403 insufficient_permissions exactly when its role is known and well
\* formed and no pattern of the list of the method matches the path.
C21_ReasonMapsToOutcomeClass ==
    \A w \in Workers :
        pc[w] = "done"
        => /\ req[w].authHeader = <<>> => outcome[w] = Deny("401", "missing_token")
           /\ MalformedHeader(req[w].authHeader)
                 => outcome[w] = Deny("401", "invalid_token_format")
           /\ CredentialRejected(w) => outcome[w] = Deny("401", "invalid_token")
           /\ RoleFetchFailed(w) => outcome[w] = Deny("500", "role_not_found")
           /\ NoPatternMatches(w)
                 <=> outcome[w] = Deny("403", "insufficient_permissions")
           /\ outcome[w].reason = "insufficient_permissions"
                 => outcome[w].status = "403"
           /\ outcome[w].reason = "role_not_found" => outcome[w].status = "500"

C21_Witness ==
    \E w \in Workers :
        /\ pc[w] = "done"
        /\ loc[w].token = TokenBob
        /\ loc[w].user = UserBob
        /\ RoleFetchFailed(w)
        /\ outcome[w] = Deny("500", "role_not_found")

\* C22: an answered request one of whose calls to the identity service could
\* not be sent, the validation of the token after a miss of the user map
\* included, is denied with 500.
C22_UnreachableIsServerError ==
    \A w \in Workers :
        (pc[w] = "done" /\ loc[w].err = "unreachable")
        => (outcome[w].kind = "Deny" /\ outcome[w].status = "500")

\* The failure kinds of the taxonomy, by the label authMiddleware gives them:
\* MissingToken, MalformedToken, InvalidCredential, RoleResolutionFailed,
\* InsufficientPermission, UpstreamUnavailable
TaxonomyReasons ==
    {"missing_token", "invalid_token_format", "invalid_token", "role_not_found",
     "insufficient_permissions", "refresh_failed"}

\* C23: every answered request is allowed or denied with one of the six
\* kinds of the taxonomy; no other failure kind, and no parsing error, is the
\* reason of a denial.
C23_OnlyTaxonomyKinds ==
    \A w \in Workers :
        pc[w] = "done"
        => \/ outcome[w] = Allow
           \/ (outcome[w].kind = "Deny" /\ outcome[w].reason \in TaxonomyReasons)

\* C24: every user in the user map is a record the identity service returns
\* for a token with active = TRUE, and every allowed request carries such a
\* user; a request with the token of an inactive account is never allowed.
C24_InactiveNeverAuthenticated ==
    /\ \A k \in DOMAIN userCache :
          /\ userCache[k].active
          /\ \E t \in AcceptedTokens : userCache[k] = RecordOf(t)
    /\ \A w \in Workers :
          /\ outcome[w] = Allow
                => (loc[w].user.active
                    /\ \E t \in AcceptedTokens : loc[w].user = RecordOf(t))
          /\ (loc[w].token \in AcceptedTokens /\ ~RecordOf(loc[w].token).active)
                => (outcome[w] # Allow /\ loc[w].user = NilUser)

C24_Witness ==
    \E w \in Workers :
        /\ pc[w] = "done"
        /\ loc[w].token = TokenCarol
        /\ loc[w].validateCalls = 1
        /\ loc[w].err = "inactive"
        /\ outcome[w] = Deny("401", "invalid_token")
        /\ \A k \in DOMAIN userCache : userCache[k] # UserCarol

\* C25: an answered request to a route configured with protected = FALSE is
\* forwarded, with no token read and no permission check made, and an
\* answered request to a route with protected = TRUE is forwarded only with
\* a user for its token and a permission of the user's role.
C25_ProtectedFlag ==
    \A w \in Workers :
        pc[w] = "done"
        => /\ ~RouteOf(req[w].path).protected
                 => (outcome[w] = Allow /\ loc[w] = NoLocals)
           /\ (RouteOf(req[w].path).protected /\ outcome[w] = Allow)
                 => (/\ loc[w].user # NilUser
                     /\ loc[w].role # NilRole
                     /\ ~NoPatternMatches(w))

\* The text starts with the first 8 characters of the token, or with all of
\* them when the token has fewer
ShowsTokenPrefix(text, token) ==
    LET n == IF Len(token) > 8 THEN 8 ELSE Len(token)
    IN  /\ n > 0
        /\ Len(text) >= n
        /\ SubSeq(text, 1, n) = SubSeq(token, 1, n)

\* C29: no log entry written while a request is served shows characters of
\* the request's token, whatever the length of the token; an entry that
\* identifies a token is the hashed_token field of Cache.AddUser.
C29_NoRawTokenLogged ==
    \A w \in Workers :
        loc[w].logged.field # "none"
        => /\ ~ShowsTokenPrefix(loc[w].logged.text, loc[w].token)
           /\ loc[w].logged.field = "hashed_token"

\* C30: the calls of the identity service are made outside the lock
\* sections of the cache, and a lock section of the cache does nothing but
\* read or write the maps and lastRefreshTime.
C30_LockSectionsPure ==
    \A w \in Workers :
        \A i \in 1..Len(loc[w].sections) :
            /\ "call" \in loc[w].sections[i].did => loc[w].sections[i].lock = "none"
            /\ loc[w].sections[i].lock # "none"
                  => loc[w].sections[i].did \subseteq {"map", "time"}

\* The methods of Cache that write a map or lastRefreshTime
WritingSections ==
    {SectionAddUser, SectionAddRole, SectionClearCache, SectionBulkLoadRoles}

\* C31: every piece of work that reads or writes a map or lastRefreshTime is
\* done with the read or the write lock held, and the methods that write them
\* hold the write lock.
C31_SharedStateUnderLock ==
    \A w \in Workers :
        \A i \in 1..Len(loc[w].sections) :
            /\ loc[w].sections[i].did \cap {"map", "time"} # {}
                  => loc[w].sections[i].lock \in {"read", "write"}
            /\ loc[w].sections[i] \in WritingSections
                  => loc[w].sections[i].lock = "write"

\* No other run cleared the cache between the bulk load and the role lookup
\* of the run of w
NoConcurrentInvalidation(w) == "lookup_window" \notin loc[w].invalidatedAt

\* C32: in a request for which RefreshIfNeeded returned true and both lists
\* were fetched, from the bulk load to the role lookup the role map returns
\* every role of the fetched list unless another request cleared the cache
\* meanwhile; and unless that happened, the role lookup of the request is a
\* hit that returns the role of the list and GetRoleByID of the identity
\* service is not called.
C32_PreWarmBeforeLookups ==
    \A w \in Workers :
        (loc[w].refreshed /\ NoConcurrentInvalidation(w))
        => /\ PastBulkLoad(w)
                 => \A i \in 1..Len(AllRoles) :
                        /\ loc[w].roles = AllRoles
                        /\ CacheGetRoleByID(roleCache, AllRoles[i].id) = AllRoles[i]
           /\ (loc[w].user # NilUser /\ pc[w] \in {"authorize", "done"})
                 => /\ loc[w].roleLookup = "hit"
                    /\ loc[w].fetchRoleCalls = 0
                    /\ loc[w].role = RoleOfUser(loc[w].user)
           /\ pc[w] \notin {"fetch_role", "add_role"}

C32_Witness ==
    \E w \in Workers :
        /\ pc[w] = "done"
        /\ loc[w].refreshed
        /\ loc[w].refreshCalls = 2
        /\ loc[w].token = TokenBob
        /\ loc[w].roleLookup = "hit"
        /\ loc[w].fetchRoleCalls = 0
        /\ outcome[w] = Allow

\* C33: the test of the TTL and the clearing are one atomic step: whenever a
\* call of RefreshIfNeeded clears the maps the TTL has expired at that moment,
\* so of the calls made after one expiry one clears, and the entries stored
\* since the last clearing are removed only when the TTL has elapsed again.
C33_TestAndClearAtomic ==
    [][/\ (\E w \in Workers : pc[w] = "clear" /\ pc'[w] = "get_all_roles")
             => NeedsRefresh
       /\ (stored # NoStored /\ stored' = NoStored) => NeedsRefresh]_vars

\* The tokens the identity service rejects on every call
RejectedTokens == Tokens \ AcceptedTokens

\* C34: a token the identity service rejects on every call is not allowed
\* from the cache once the TTL has elapsed: a request that carries it, that
\* found the TTL expired and cleared the cache itself, and that went on to
\* the lookup of the user, is denied with 401 invalid_token, whatever tokens
\* other requests present meanwhile.
C34_RevokedEventuallyDenied ==
    \A w \in Workers :
        (/\ pc[w] = "done"
         /\ loc[w].token \in RejectedTokens
         /\ loc[w].refreshed
         /\ loc[w].userLookup # "none")
        => outcome[w] = Deny("401", "invalid_token")

\* C35: what a request stores in the cache was returned by a call of the
\* identity service made after the latest clearing: no request stores a user,
\* a role or the fetched list of roles when another request cleared the cache
\* while it held that result.
C35_NoStaleInsert ==
    [][\A w \in Workers :
           /\ (pc[w] = "add_user" /\ pc'[w] = "lookup_role")
                 => "add_user" \notin loc[w].invalidatedAt
           /\ (pc[w] = "add_role" /\ pc'[w] = "authorize")
                 => "add_role" \notin loc[w].invalidatedAt
           /\ (pc[w] = "bulk_load" /\ pc'[w] = "bulk_load_users")
                 => loc[w].invalidatedAt \cap {"get_all_users", "bulk_load"} = {}]_vars

\* Contents of a permission field: absent, lists of patterns, and bytes that
\* are no list
WellFormedData ==
    {JsonEmpty, JsonArray(<<>>), JsonArray(<<PatternApiHash>>),
     JsonArray(<<PatternDevicesPlus>>)}
PermissionData == WellFormedData \cup {JsonMalformed}

\* The request of w was answered with the role of its user in hand
Decided(w) == pc[w] = "done" /\ loc[w].role # NilRole

\* The answer to the request of w is the answer it gets with every field of
\* the set in place of the field its method does not select
OtherFieldIrrelevant(w, data) ==
    IF req[w].method \in WriteMethods
    THEN \A d \in data :
             Decide([loc[w].role EXCEPT !.SubscribePermissions = d],
                    req[w].method, req[w].path) = outcome[w]
    ELSE \A d \in data :
             Decide([loc[w].role EXCEPT !.PublishPermissions = d],
                    req[w].method, req[w].path) = outcome[w]

\* C36: the answer to a request with a read method is the same for every
\* content of the publish field of the role, well formed or not, and the
\* answer to a request with a write method is the same for every content of
\* the subscribe field.
C36_OtherFieldIrrelevant ==
    \A w \in Workers : Decided(w) => OtherFieldIrrelevant(w, PermissionData)

\* C36, amended: when both fields of the role are well formed, the answer to
\* a request with a read method is the same for every well-formed content of
\* the publish field, and the answer to a request with a write method is the
\* same for every well-formed content of the subscribe field; when one of the
\* two fields is malformed the request is denied with 500 invalid_permissions
\* whatever its method.
C36_OtherFieldIrrelevantWellFormed ==
    \A w \in Workers :
        Decided(w)
        => IF \/ GetPublishPermissions(loc[w].role).err
              \/ GetSubscribePermissions(loc[w].role).err
           THEN outcome[w] = Deny("500", "invalid_permissions")
           ELSE OtherFieldIrrelevant(w, WellFormedData)

C36_Witness ==
    \E w \in Workers :
        /\ Decided(w)
        /\ loc[w].token = TokenAlice
        /\ req[w].method = "POST"
        /\ loc[w].role = RoleOperator
        /\ outcome[w] = Deny("403", "insufficient_permissions")
        /\ Decide(RoleOperator, "GET", req[w].path) = Allow

\* C37: every entry of the role map is stored under the id of its role,
\* whatever AddRole, BulkLoadRoles and ClearCache calls were made, and the
\* role a request holds for its user, from the cache or from the identity
\* service, has the id the user names.
C37_RoleKeyedById ==
    /\ \A k \in DOMAIN roleCache : roleCache[k].id = k
    /\ \A w \in Workers :
          loc[w].role # NilRole => loc[w].role.id = loc[w].user.roleID

C37_Witness ==
    \E w \in Workers :
        /\ pc[w] = "authorize"
        /\ loc[w].fetchRoleCalls = 1
        /\ loc[w].user = UserBob
        /\ DOMAIN roleCache = RoleIDs(AllRoles)
        /\ roleCache[UserBob.roleID] = RoleReadOnly
        /\ \E v \in Workers : loc[v].refreshed

\* The tokens the identity service never returns a user for
NeverValid == {t \in Tokens : \A answer \in ValidateAnswers(t) : answer.err # ""}

\* The step in which the validation of the token of w fails
ValidationFails(w) == pc[w] = "validate" /\ pc'[w] = "done"

\* C38: the step in which validateToken fails changes neither map; the user
\* map never holds an entry that is not the record of an accepted token (no
\* negative entry); and a request with a token that is never valid misses
\* the user map every time, calls validateToken once and is denied with 401
\* invalid_token.
C38_FailedValidationStoresNothing ==
    /\ [][\A w \in Workers :
              ValidationFails(w)
              => (userCache' = userCache /\ roleCache' = roleCache
                  /\ stored' = stored)]_vars
    /\ [](\A k \in DOMAIN userCache :
              \E t \in AcceptedTokens : userCache[k] = RecordOf(t))
    /\ [](\A w \in Workers :
              loc[w].token \in NeverValid
              => /\ loc[w].userLookup \in {"none", "miss"}
                 /\ (pc[w] = "done" /\ loc[w].userLookup = "miss")
                       => (loc[w].validateCalls = 1
                           /\ outcome[w] = Deny("401", "invalid_token")))

\***************************************************************************
\* Properties of the matcher
\***************************************************************************

\* The segments Match compares, for the pattern drawn and the path matched:
\* patternParts and pathParts as strings.Split returns them, one empty
\* segment for the empty string
SchemaOf == DetectSchemaType(args.pattern)
PatternParts ==
    Split(normalizePath(args.pattern, SchemaOf), Separator(SchemaOf))
PathParts == Split(normalizePath(ret.path, SchemaOf), Separator(SchemaOf))

\* A path segment matches a pattern segment that is the schema's single-level
\* wildcard or the same string
SegmentMatches(patternSegment, pathSegment) ==
    \/ patternSegment = SingleWildcard(SchemaOf)
    \/ patternSegment = pathSegment

\* The list the claims say is checked for a method
ListFor(method) ==
    IF method \in {"POST", "PUT", "PATCH", "DELETE"} THEN args.publish
    ELSE args.subscribe

\* Some pattern of the list matches the request path
SomeMatch(list, path) ==
    \E i \in 1..Len(list) :
        Match(list[i], MapPathToTopic(path, DetectSchemaType(list[i])))

Reverse(list) == [i \in 1..Len(list) |-> list[Len(list) + 1 - i]]

\* C2: with the role {publish: [api/v1/devices/+], subscribe: [api/v1/#]},
\* GET /api/v1/devices/123/readings and POST /api/v1/devices/123 are allowed
\* and POST /api/v1/devices/123/readings is denied with 403 insufficient
\* permissions.
C2_EndToEndExample ==
    (/\ ret.fn = "CheckPermission"
     /\ args.publish = <<PatternDevicesPlus>>
     /\ args.subscribe = <<PatternV1Hash>>)
    => /\ (ret.method = "GET" /\ ret.path = PathDeviceReadings) => ret.value = Allow
       /\ (ret.method = "POST" /\ ret.path = PathDevice) => ret.value = Allow
       /\ (ret.method = "POST" /\ ret.path = PathDeviceReadings)
             => ret.value = Deny("403", "insufficient_permissions")

C2_Witness ==
    /\ ret.fn = "CheckPermission"
    /\ args.publish = <<PatternDevicesPlus>>
    /\ args.subscribe = <<PatternV1Hash>>
    /\ ret.method = "POST"
    /\ ret.path = PathDeviceReadings
    /\ ret.value.kind = "Deny"

\* C3: a write method (POST, PUT, PATCH, DELETE) is permitted only by a
\* matching pattern of the publish list, and a read method (GET, HEAD,
\* OPTIONS) only by a matching pattern of the subscribe list; a pattern of the
\* other list never authorizes the request.
C3_MethodSelectsList ==
    (ret.fn = "HasPermission" /\ ret.value = TRUE)
    => /\ ret.method \in {"POST", "PUT", "PATCH", "DELETE"}
             => SomeMatch(args.publish, ret.path)
       /\ ret.method \in {"GET", "HEAD", "OPTIONS"}
             => SomeMatch(args.subscribe, ret.path)

C3_Witness ==
    /\ ret.fn = "HasPermission"
    /\ ret.method = "PATCH"
    /\ ~SomeMatch(args.publish, ret.path)
    /\ SomeMatch(args.subscribe, ret.path)
    /\ ret.value = FALSE

\* C4: when the last segment of the pattern is the multi-level wildcard of
\* the pattern's schema, Match is true for every path whose leading segments
\* match the pattern segments before the wildcard, whatever number of
\* segments follows, zero included; the pattern that is only the wildcard
\* matches every path.
C4_MultiWildcardSuffix ==
    (/\ ret.fn = "Match"
     /\ PatternParts[Len(PatternParts)] = MultiWildcard(SchemaOf)
     /\ Len(PathParts) >= Len(PatternParts) - 1
     /\ \A i \in 1..(Len(PatternParts) - 1) :
           /\ PatternParts[i] # MultiWildcard(SchemaOf)
           /\ SegmentMatches(PatternParts[i], PathParts[i]))
    => ret.value = TRUE

C4_Witness ==
    /\ ret.fn = "Match"
    /\ args.pattern = <<"a", "/", "#">>
    /\ ret.path = <<"a">>
    /\ ret.value = TRUE

\* C5: when the multi-level wildcard of the pattern's schema is a segment of
\* the pattern at any position but the last, Match is false for every path.
C5_MultiWildcardNotLast ==
    (/\ ret.fn = "Match"
     /\ \E i \in 1..(Len(PatternParts) - 1) :
           PatternParts[i] = MultiWildcard(SchemaOf))
    => ret.value = FALSE

C5_Witness ==
    /\ ret.fn = "Match"
    /\ args.pattern = <<"#", "/", "a">>
    /\ ret.path = <<"a", "/", "a">>
    /\ ret.value = FALSE

\* C6: Match("+", "") is false and Match("#", "") is true.
C6_SingleWildcardNeedsSegment ==
    (ret.fn = "Match" /\ ret.path = <<>>)
    => /\ args.pattern = <<"+">> => ret.value = FALSE
       /\ args.pattern = <<"#">> => ret.value = TRUE

\* The segments of the pattern and of the path as they are counted by
\* hand: the empty string has no segment
PatternSegments ==
    IF normalizePath(args.pattern, SchemaOf) = <<>> THEN <<>> ELSE PatternParts
PathSegments ==
    IF normalizePath(ret.path, SchemaOf) = <<>> THEN <<>> ELSE PathParts

\* C7: a pattern none of whose segments is the multi-level wildcard of its
\* schema matches a path exactly when the path has as many segments as the
\* pattern and every pattern segment is the single-level wildcard or the same
\* string as its path segment; so api/+/device matches api/v1/device and not
\* api/v1/device/123.
C7_ExactSegmentCount ==
    (/\ ret.fn = "Match"
     /\ \A i \in 1..Len(PatternSegments) :
           PatternSegments[i] # MultiWildcard(SchemaOf))
    => /\ ret.value = TRUE
          <=> /\ Len(PathSegments) = Len(PatternSegments)
              /\ \A i \in 1..Len(PatternSegments) :
                    SegmentMatches(PatternSegments[i], PathSegments[i])
       /\ (args.pattern = ExamplePattern /\ ret.path = ExamplePathMatch)
             => ret.value = TRUE
       /\ (args.pattern = ExamplePattern /\ ret.path = ExamplePathLonger)
             => ret.value = FALSE

\* The segment-wise algorithm with the separator and the wildcards of one
\* schema: the multi-level wildcard as last segment takes the rest of the
\* path, anywhere else it fails, and every other segment takes one segment.
SchemaMatch ==
    LET n == Len(PatternParts)
    IN  IF \E i \in 1..(n - 1) : PatternParts[i] = MultiWildcard(SchemaOf)
        THEN FALSE
        ELSE IF PatternParts[n] = MultiWildcard(SchemaOf)
        THEN /\ Len(PathParts) >= n - 1
             /\ \A i \in 1..(n - 1) : SegmentMatches(PatternParts[i], PathParts[i])
        ELSE /\ Len(PathParts) = n
             /\ \A i \in 1..n : SegmentMatches(PatternParts[i], PathParts[i])

\* C8: a pattern is dot schema exactly when it contains * or >, or contains .
\* and no /, and slash schema otherwise; Match splits the pattern and the
\* path with that schema's separator and gives a wildcard meaning only to
\* that schema's wildcards.
C8_SchemaDetection ==
    /\ ret.fn = "DetectSchemaType"
          => /\ ret.value \in {MQTT, NATS}
             /\ ret.value = NATS
                   <=> \/ Contains(args.pattern, "*")
                       \/ Contains(args.pattern, ">")
                       \/ (Contains(args.pattern, ".") /\ ~Contains(args.pattern, "/"))
    /\ ret.fn = "Match" => ret.value = SchemaMatch

\* C9: the request is permitted exactly when at least one pattern of the
\* selected list matches the path, and the result is the same for the lists
\* reversed and for the lists with every pattern repeated.
C9_ExistentialOr ==
    ret.fn = "HasPermission"
    => /\ ret.value = SomeMatch(ListFor(ret.method), ret.path)
       /\ ret.value = HasPermission(ret.path, ret.method,
                                    Reverse(args.publish), Reverse(args.subscribe))
       /\ ret.value = HasPermission(ret.path, ret.method,
                                    args.publish \o args.publish,
                                    args.subscribe \o args.subscribe)

C9_Witness ==
    /\ ret.fn = "HasPermission"
    /\ ret.method = "GET"
    /\ args.subscribe = <<PatternPlus, PatternV1Hash>>
    /\ ret.path = PathDevice
    /\ ret.value = TRUE

\* C10: when the list selected for the method is empty the request is denied
\* with 403 insufficient permissions, for every path and every other list.
C10_EmptyListDenies ==
    (ret.fn = "CheckPermission" /\ ListFor(ret.method) = <<>>)
    => ret.value = Deny("403", "insufficient_permissions")

C10_Witness ==
    /\ ret.fn = "CheckPermission"
    /\ ret.method = "POST"
    /\ args.publish = <<>>
    /\ args.subscribe = <<PatternV1Hash>>
    /\ ret.path = PathDevice
    /\ ret.value = Deny("403", "insufficient_permissions")

\* C26: a dot-schema pattern whose last segment is > matches a path only
\* when the path has a segment at the position of the >, so at least as many
\* segments as the pattern.
C26_DotMultiNeedsSegment ==
    (/\ ret.fn = "Match"
     /\ SchemaOf = NATS
     /\ PatternParts[Len(PatternParts)] = <<">">>
     /\ ret.value = TRUE)
    => Len(PathParts) >= Len(PatternParts)

\* C27: a pattern without multi-level wildcard that matches a path does not
\* match the path followed by a slash.
C27_TrailingSlashCounts ==
    (/\ ret.fn = "Match"
     /\ \A i \in 1..Len(PatternParts) : PatternParts[i] \notin {<<"#">>, <<">">>}
     /\ ret.value = TRUE)
    => ~Match(args.pattern, ret.path \o <<"/">>)

\* The topic HasPermission hands to Match for the i-th pattern of a list
TopicFor(list, i) == MapPathToTopic(ret.path, DetectSchemaType(list[i]))

\* The request path starts with a slash
LeadingSlash == IF Len(ret.path) > 0 /\ ret.path[1] = "/" THEN 1 ELSE 0

\* C28: for every pattern of the list of the method, of either schema, the
\* topic matched against it is the request path without its leading slash.
C28_OnlyLeadingSeparatorRemoved ==
    ret.fn = "HasPermission"
    => \A i \in 1..Len(ListFor(ret.method)) :
           TopicFor(ListFor(ret.method), i) = TrimPrefix(ret.path, "/")

\* C28, amended: the topic matched against a pattern is the request path
\* without its leading slash and, for a dot-schema pattern, with every other
\* slash written as a dot; no character is removed and no other character is
\* replaced, and the request is permitted exactly when a pattern of the list
\* matches its topic.
C28_PathMappingPerSchema ==
    ret.fn = "HasPermission"
    => LET list == ListFor(ret.method)
       IN  /\ \A i \in 1..Len(list) :
                 LET topic == TopicFor(list, i)
                 IN  /\ Len(topic) = Len(ret.path) - LeadingSlash
                     /\ \A k \in 1..Len(topic) :
                           IF DetectSchemaType(list[i]) = NATS
                              /\ ret.path[k + LeadingSlash] = "/"
                           THEN topic[k] = "."
                           ELSE topic[k] = ret.path[k + LeadingSlash]
           /\ ret.value = \E i \in 1..Len(list) : Match(list[i], TopicFor(list, i))

C28_Witness ==
    /\ ret.fn = "HasPermission"
    /\ ret.method = "GET"
    /\ args.subscribe = <<PatternNatsV1>>
    /\ ret.path = PathDevice
    /\ TopicFor(args.subscribe, 1) # TrimPrefix(ret.path, "/")
    /\ ret.value = TRUE

\* C39: HasPermission gives the same result with a dot-schema pattern as
\* with its slash form, for every request path and method.
C39_SchemasEquivalent ==
    ret.fn = "HasPermission" => ret.value = ret.slash

\* The pattern is written with the dot schema's characters only
PureDot(pattern) == \A i \in 1..Len(pattern) : pattern[i] \notin {"/", "+", "#"}

\* Every * and > of the pattern is a whole segment of it
WildcardsAreSegments(pattern) ==
    LET segments == Split(pattern, ".")
    IN  \A i \in 1..Len(segments) :
            \/ segments[i] \in {<<"*">>, <<">">>}
            \/ (~Contains(segments[i], "*") /\ ~Contains(segments[i], ">"))

\* C39, amended: HasPermission gives the same result with a dot-schema
\* pattern that holds no /, + or # and in which every * and > is a whole
\* segment as with its slash form, for every method and every request path
\* that holds no dot.
C39_SchemasEquivalentOnPlainPaths ==
    (/\ ret.fn = "HasPermission"
     /\ PureDot(args.pattern)
     /\ WildcardsAreSegments(args.pattern)
     /\ ~Contains(ret.path, "."))
    => ret.value = ret.slash

C39_Witness ==
    /\ ret.fn = "HasPermission"
    /\ args.pattern = <<"a", ".", "*">>
    /\ ret.path = <<"/", "a", "/", "+">>
    /\ ret.method = "POST"
    /\ ret.value = TRUE
    /\ ret.slash = TRUE

====
